---- MODULE Spec2Model ----
(***************************************************************************)
(* caltraind: extraction of the train status snapshot from the status      *)
(* page (src/src/caltrain_status.rs).                                      *)
(*                                                                         *)
(* Strings are TLA+ strings; Option<T> is a sequence of length 0 (None)    *)
(* or 1 (Some(x)).                                                         *)
(***************************************************************************)
EXTENDS Integers, Sequences, FiniteSets, TLC

VARIABLES
    pc,        \* position of the from_html call: "idle", "walk", "done"
    frame,     \* the locals of from_html (lines 97-114), shared by every walk call
    depth,     \* number of element nodes whose walk call is on the stack
    prev_text, \* the previous sibling of the node visited next is a text node
    result,    \* what from_html returned (or that it panicked)
    NUMERIC,   \* the lazily initialised static regex (line 16)
    rows,      \* history: the rows completed so far, with the table index then
    last_row,  \* history: the row completed by the latest step, if any
    markers,   \* history: number of subtable-marker elements visited so far
    visited_text, \* history: the content of the text node the latest step visited
    committed, \* history: the commit the latest step made (lines 184-189), if any
    stale,     \* history: a class is pending and last_text was set before it was
    staged_no, \* history: the table index at which each staging slot was filled last
    seen,      \* history: number of text nodes visited so far
    cell,      \* history: the latest field-marker element, while walk is inside it
    closed,    \* history: the field-marker element the latest step left, if any
    frame2,    \* the locals of a second from_html call on the same document
    result2,   \* what the second call returned
    NUMERIC2,  \* the static regex as the second call finds it
    b_tid,     \* make_incoming_train called alone: its arguments,
    b_ttype,
    b_tta,
    b_pc,      \* whether it has returned,
    b_out,     \* and its result
    notifier,  \* a Notifier actor: the fields of the struct (notifier.rs 12-18)
    status,    \* the CaltrainStatus message the Notifier handled last
    now,       \* Local::now().naive_local().time() as that handle call read it
    shown,     \* the trains the last handle call showed a notification for
    kept,      \* history: ids notified and listed in every snapshot since
    missed,    \* history: ids notified and not listed in some snapshot since
    lapsed,    \* history: the same, for a snapshot handled past notify_after
    sys,       \* the actix System the actors run on: "new", "running", "panicked"
    polls,     \* number of run_status_update calls the CStatusFetcher has made
    in_flight, \* the polls whose spawned update_status future has not resolved
    outcome,   \* history: how the future of each poll resolved, "" until then
    issued,    \* the polls whose snapshot was issued to the broker, in order
    e_attr,    \* an element node visited alone: its class attribute,
    e_before,  \* the locals of from_html as walk finds them,
    e_pc,      \* whether lines 145-163 have run,
    e_after    \* and the locals after them

vars == <<pc, frame, depth, prev_text, result, NUMERIC, rows, last_row, markers,
          visited_text, committed, stale, staged_no, seen, cell, closed,
          frame2, result2, NUMERIC2, b_tid, b_ttype, b_tta, b_pc, b_out,
          notifier, status, now, shown, kept, missed, lapsed,
          sys, polls, in_flight, outcome, issued,
          e_attr, e_before, e_pc, e_after>>

-----------------------------------------------------------------------------
(* Bounds of the model *)

MaxDepth == 1     \* elements nested below the document node
MaxTables == 2    \* elements carrying the subtable marker
MaxRows == 2      \* rows completed in one document
MaxPolls == 3     \* polls the CStatusFetcher starts
MaxTexts == 3     \* text nodes of a document walked with its history kept

-----------------------------------------------------------------------------
(* Option<T> *)

None == <<>>
Some(x) == <<x>>
IsSome(o) == Len(o) = 1
Unwrap(o) == o[1]

-----------------------------------------------------------------------------
(* Strings *)

Char(s, i) == SubSeq(s, i, i)

\* str::contains
Contains(s, p) ==
    \E i \in 1..(Len(s) - Len(p) + 1) : SubSeq(s, i, i + Len(p) - 1) = p

\* <[u8]>::ends_with
ends_with(val, suffix) ==
    /\ Len(val) >= Len(suffix)
    /\ SubSeq(val, Len(val) - Len(suffix) + 1, Len(val)) = suffix

AsciiDigits == "0123456789"

IsDigit(c) == \E d \in 1..10 : Char(AsciiDigits, d) = c

DigitValue(c) == (CHOOSE d \in 1..10 : Char(AsciiDigits, d) = c) - 1

AllDigits(s) == \A i \in 1..Len(s) : IsDigit(Char(s, i))

RECURSIVE Decimal(_)
Decimal(s) ==
    IF Len(s) = 0 THEN 0
    ELSE 10 * Decimal(SubSeq(s, 1, Len(s) - 1)) + DigitValue(Char(s, Len(s)))

U16Max == 65535

ParseIntError == -1

\* Mutant: the value wraps around instead of overflowing
ParseU16Wrapping(s) ==
    LET digits == IF Len(s) > 0 /\ Char(s, 1) = "+" THEN SubSeq(s, 2, Len(s)) ELSE s
    IN  IF Len(digits) = 0 \/ ~AllDigits(digits) THEN ParseIntError
        ELSE Decimal(digits) % (U16Max + 1)

\* str::parse::<u16>: an optional leading '+', then one or more ASCII digits,
\* the value at most u16::MAX; anything else is a ParseIntError.
ParseU16(s) ==
    LET digits == IF Len(s) > 0 /\ Char(s, 1) = "+" THEN SubSeq(s, 2, Len(s)) ELSE s
    IN  IF Len(digits) = 0 \/ ~AllDigits(digits) THEN ParseIntError
        ELSE IF Decimal(digits) > U16Max THEN ParseIntError
        ELSE Decimal(digits)

\* Mutant: the regex "[0-9]", which matches one digit
NumericFindFirstDigit(tta) ==
    LET starts == {i \in 1..Len(tta) : IsDigit(Char(tta, i))}
    IN  IF starts = {} THEN None
        ELSE LET a == CHOOSE i \in starts : \A j \in starts : i <= j
             IN  Some(Char(tta, a))

\* Regex "[0-9]+" .find: the leftmost match, extended greedily; None when
\* the text has no ASCII digit.
NumericFindFirstRun(tta) ==
    LET starts == {i \in 1..Len(tta) : IsDigit(Char(tta, i))}
    IN  IF starts = {} THEN None
        ELSE LET a == CHOOSE i \in starts : \A j \in starts : i <= j
                 ends == {e \in a..Len(tta) :
                             /\ \A k \in a..e : IsDigit(Char(tta, k))
                             /\ (e = Len(tta) \/ ~IsDigit(Char(tta, e + 1)))}
                 e == CHOOSE x \in ends : TRUE
             IN  Some(SubSeq(tta, a, e))

\* Mutant: a matcher that is used up by its first search
NumericFindOnce(numeric, tta) ==
    IF numeric = "uninit" THEN NumericFindFirstRun(tta) ELSE None

\* NUMERIC.find(&tta): numeric is the state of the static when it is used;
\* the cell is forced and the compiled regex searched, whatever that state.
NumericFind(numeric, tta) == NumericFindFirstRun(tta)

-----------------------------------------------------------------------------
(* TrainType and the record builder *)

TrainTypes == {"Local", "Limited", "BabyBullet"}

Panicked == "panic!"

\* Mutant: "Limited" tested before "Local"
TrainTypeFromLimitedFirst(s) ==
    IF Contains(s, "Limited") THEN "Limited"
    ELSE IF Contains(s, "Local") THEN "Local"
    ELSE IF Contains(s, "Baby Bullet") THEN "BabyBullet"
    ELSE Panicked

\* impl From<T> for TrainType
TrainTypeFrom(s) ==
    IF Contains(s, "Local") THEN "Local"
    ELSE IF Contains(s, "Limited") THEN "Limited"
    ELSE IF Contains(s, "Baby Bullet") THEN "BabyBullet"
    ELSE Panicked

Sentinel == 9001

IncomingTrain(id, ttype, min_till_arrival) ==
    [id |-> id, ttype |-> ttype, min_till_departure |-> min_till_arrival]

NoTrain == IncomingTrain(0, "", 0)

BuildOk(t) == [kind |-> "Ok", train |-> t]
BuildErr == [kind |-> "Err", train |-> NoTrain]
BuildPanic == [kind |-> "Panic", train |-> NoTrain]

\* Mutant: a time text without digits is an error
MinTillArrivalStrict(numeric, tta) ==
    LET m == NumericFind(numeric, tta)
    IN  IF IsSome(m) THEN ParseU16(Unwrap(m)) ELSE ParseIntError

\* lines 123-127
MinTillArrival(numeric, tta) ==
    LET m == NumericFind(numeric, tta)
    IN  IF IsSome(m) THEN ParseU16(Unwrap(m)) ELSE Sentinel

\* fn make_incoming_train: the three steps in the order of the code, each
\* ending the call when it fails.
make_incoming_train(numeric, tid, ttype, tta) ==
    LET id == ParseU16(tid)
        ty == TrainTypeFrom(ttype)
        min_till_arrival == MinTillArrival(numeric, tta)
    IN  IF id = ParseIntError THEN BuildErr
        ELSE IF ty = Panicked THEN BuildPanic
        ELSE IF min_till_arrival = ParseIntError THEN BuildErr
        ELSE BuildOk(IncomingTrain(id, ty, min_till_arrival))

\* The static after the call: compiled at the first NUMERIC.find, which the
\* call reaches once the identifier and the type are accepted.
NumericAfter(numeric, tid, ttype) ==
    IF ParseU16(tid) # ParseIntError /\ TrainTypeFrom(ttype) # Panicked
    THEN "[0-9]+" ELSE numeric

-----------------------------------------------------------------------------
(* The marker suffixes of the class attribute *)

SUBTABLE == "ipf-st-ip-trains-subtable"
TD_ID == "ipf-st-ip-trains-subtable-td-id"
TD_TYPE == "ipf-st-ip-trains-subtable-td-type"
TD_ARRIVALTIME == "ipf-st-ip-trains-subtable-td-arrivaltime"

\* The class attribute of an element: None when the element has none.
ClassAttrs ==
    {None} \cup
    {Some(v) : v \in {SUBTABLE, TD_ID, TD_TYPE, TD_ARRIVALTIME,
                      "odd ipf-st-ip-trains-subtable",
                      "ipf-st-ip-trains-subtable-td-id first"}}

\* The contents of the text nodes of the documents explored.
Texts == {"429", "Local", "70000"}

-----------------------------------------------------------------------------
(* from_html: its locals and the walk over the document tree *)

\* lines 97-114: the locals of a from_html call
FromHtmlLocals ==
    [ train_id          |-> None,
      train_type        |-> None,
      time_till_arrival |-> None,
      last_text         |-> None,
      current_table_no  |-> 0,
      southbound        |-> <<>>,
      northbound        |-> <<>>,
      last_read_class   |-> None ]

NoResult == [kind |-> "None", error |-> "", northbound |-> <<>>, southbound |-> <<>>]
Err(e) == [kind |-> "Err", error |-> e, northbound |-> <<>>, southbound |-> <<>>]
Panic == [kind |-> "Panic", error |-> "", northbound |-> <<>>, southbound |-> <<>>]
\* lines 228-231
OkStatus(f) ==
    [kind |-> "Ok", error |-> "", northbound |-> f.northbound, southbound |-> f.southbound]

\* Mutant: an element with a field marker drops the text seen before it
ElementNodeClearsText(f, attr) ==
    IF ~IsSome(attr) THEN f
    ELSE LET val == Unwrap(attr)
             f1 == IF ends_with(val, SUBTABLE)
                    THEN [f EXCEPT !.current_table_no = @ + 1] ELSE f
             f2 == IF ends_with(val, TD_ID)
                    THEN [f1 EXCEPT !.last_read_class = Some("TrainId"),
                                    !.last_text = None] ELSE f1
             f3 == IF ends_with(val, TD_TYPE)
                    THEN [f2 EXCEPT !.last_read_class = Some("TrainType"),
                                    !.last_text = None] ELSE f2
             f4 == IF ends_with(val, TD_ARRIVALTIME)
                    THEN [f3 EXCEPT !.last_read_class = Some("TimeTillArrival"),
                                    !.last_text = None] ELSE f3
         IN  f4

\* Mutant: a subtable marker starts a new row
ElementNodeNewBlock(f, attr) ==
    IF ~IsSome(attr) THEN f
    ELSE LET val == Unwrap(attr)
             f1 == IF ends_with(val, SUBTABLE)
                    THEN [f EXCEPT !.current_table_no = @ + 1,
                                   !.train_id = None,
                                   !.train_type = None,
                                   !.time_till_arrival = None] ELSE f
             f2 == IF ends_with(val, TD_ID)
                    THEN [f1 EXCEPT !.last_read_class = Some("TrainId")] ELSE f1
             f3 == IF ends_with(val, TD_TYPE)
                    THEN [f2 EXCEPT !.last_read_class = Some("TrainType")] ELSE f2
             f4 == IF ends_with(val, TD_ARRIVALTIME)
                    THEN [f3 EXCEPT !.last_read_class = Some("TimeTillArrival")] ELSE f3
         IN  f4

\* Mutant: the markers are looked for anywhere in the value
ElementNodeContains(f, attr) ==
    IF ~IsSome(attr) THEN f
    ELSE LET val == Unwrap(attr)
             f1 == IF Contains(val, SUBTABLE)
                    THEN [f EXCEPT !.current_table_no = @ + 1] ELSE f
             f2 == IF Contains(val, TD_ID)
                    THEN [f1 EXCEPT !.last_read_class = Some("TrainId")] ELSE f1
             f3 == IF Contains(val, TD_TYPE)
                    THEN [f2 EXCEPT !.last_read_class = Some("TrainType")] ELSE f2
             f4 == IF Contains(val, TD_ARRIVALTIME)
                    THEN [f3 EXCEPT !.last_read_class = Some("TimeTillArrival")] ELSE f3
         IN  f4

\* Mutant: a subtable marker sets the table index to 1
ElementNodeFirstTable(f, attr) ==
    IF ~IsSome(attr) THEN f
    ELSE LET val == Unwrap(attr)
             f1 == IF ends_with(val, SUBTABLE)
                    THEN [f EXCEPT !.current_table_no = 1] ELSE f
             f2 == IF ends_with(val, TD_ID)
                    THEN [f1 EXCEPT !.last_read_class = Some("TrainId")] ELSE f1
             f3 == IF ends_with(val, TD_TYPE)
                    THEN [f2 EXCEPT !.last_read_class = Some("TrainType")] ELSE f2
             f4 == IF ends_with(val, TD_ARRIVALTIME)
                    THEN [f3 EXCEPT !.last_read_class = Some("TimeTillArrival")] ELSE f3
         IN  f4

\* lines 145-163: an element node, its class attribute tested against the
\* four suffixes, each test on its own
ElementNode(f, attr) ==
    IF ~IsSome(attr) THEN f
    ELSE LET val == Unwrap(attr)
             f1 == IF ends_with(val, SUBTABLE)
                    THEN [f EXCEPT !.current_table_no = @ + 1] ELSE f
             f2 == IF ends_with(val, TD_ID)
                    THEN [f1 EXCEPT !.last_read_class = Some("TrainId")] ELSE f1
             f3 == IF ends_with(val, TD_TYPE)
                    THEN [f2 EXCEPT !.last_read_class = Some("TrainType")] ELSE f2
             f4 == IF ends_with(val, TD_ARRIVALTIME)
                    THEN [f3 EXCEPT !.last_read_class = Some("TimeTillArrival")] ELSE f3
         IN  f4

\* lines 164-166: a text node
TextNode(f, contents) == [f EXCEPT !.last_text = Some(contents)]

\* Mutant: the pending class is dropped at the end of every node
CommitScoped(f) ==
    IF IsSome(f.last_read_class) /\ IsSome(f.last_text)
    THEN LET ttype == Unwrap(f.last_read_class)
             text == f.last_text
             g == CASE ttype = "TrainId" -> [f EXCEPT !.train_id = text]
                    [] ttype = "TrainType" -> [f EXCEPT !.train_type = text]
                    [] ttype = "TimeTillArrival" -> [f EXCEPT !.time_till_arrival = text]
         IN  [g EXCEPT !.last_read_class = None, !.last_text = None]
    ELSE [f EXCEPT !.last_read_class = None]

\* Mutant: a commit leaves the pending class set
CommitKeepsClass(f) ==
    IF IsSome(f.last_read_class) /\ IsSome(f.last_text)
    THEN LET ttype == Unwrap(f.last_read_class)
             text == f.last_text
             g == CASE ttype = "TrainId" -> [f EXCEPT !.train_id = text]
                    [] ttype = "TrainType" -> [f EXCEPT !.train_type = text]
                    [] ttype = "TimeTillArrival" -> [f EXCEPT !.time_till_arrival = text]
         IN  [g EXCEPT !.last_text = None]
    ELSE f

\* lines 182-194: after the children, the pending class and the last text,
\* when both are set, fill a staging slot and are cleared
Commit(f) ==
    IF IsSome(f.last_read_class) /\ IsSome(f.last_text)
    THEN LET ttype == Unwrap(f.last_read_class)
             text == f.last_text
             g == CASE ttype = "TrainId" -> [f EXCEPT !.train_id = text]
                    [] ttype = "TrainType" -> [f EXCEPT !.train_type = text]
                    [] ttype = "TimeTillArrival" -> [f EXCEPT !.time_till_arrival = text]
         IN  [g EXCEPT !.last_read_class = None, !.last_text = None]
    ELSE f

\* line 197: the three staging slots are populated
RowComplete(f) ==
    IsSome(f.train_id) /\ IsSome(f.train_type) /\ IsSome(f.time_till_arrival)

\* lines 199, 202: the record builder called on the staged texts
Built(numeric, f) ==
    make_incoming_train(numeric, Unwrap(f.train_id), Unwrap(f.train_type),
                        Unwrap(f.time_till_arrival))

Continue(f) == [kind |-> "Ok", frame |-> f]
Stop(kind, f) == [kind |-> kind, frame |-> f]

\* Mutant: the record is put in front of the list
PushSouthboundFront(f, built) ==
    IF f.current_table_no = 1
    THEN IF built.kind = "Ok"
         THEN Continue([f EXCEPT !.southbound = <<built.train>> \o @])
         ELSE Stop(built.kind, f)
    ELSE Continue(f)

\* lines 198-200, built being what make_incoming_train(tid, ttype, tta) gives
PushSouthbound(f, built) ==
    IF f.current_table_no = 1
    THEN IF built.kind = "Ok"
         THEN Continue([f EXCEPT !.southbound = Append(@, built.train)])
         ELSE Stop(built.kind, f)
    ELSE Continue(f)

\* Mutant: the first block that has rows is taken for the southbound one
PushNorthboundFirstBlock(f, built) ==
    IF f.current_table_no = 2
    THEN IF built.kind = "Ok"
         THEN IF f.southbound = <<>>
              THEN Continue([f EXCEPT !.southbound = Append(@, built.train)])
              ELSE Continue([f EXCEPT !.northbound = Append(@, built.train)])
         ELSE Stop(built.kind, f)
    ELSE Continue(f)

\* lines 201-203
PushNorthbound(f, built) ==
    IF f.current_table_no = 2
    THEN IF built.kind = "Ok"
         THEN Continue([f EXCEPT !.northbound = Append(@, built.train)])
         ELSE Stop(built.kind, f)
    ELSE Continue(f)

\* lines 208-212
Wipe(f) ==
    [f EXCEPT !.train_id = None, !.train_type = None, !.time_till_arrival = None]

\* Mutant: the staging slots are cleared only when the row was routed
RowCheckWipeRouted(numeric, f) ==
    IF RowComplete(f) /\ f.current_table_no \in {1, 2}
    THEN LET s == PushSouthbound(f, Built(numeric, f))
         IN  IF s.kind # "Ok" THEN s
             ELSE IF PushNorthbound(s.frame, Built(numeric, f)).kind # "Ok"
             THEN PushNorthbound(s.frame, Built(numeric, f))
             ELSE Continue(Wipe(PushNorthbound(s.frame, Built(numeric, f)).frame))
    ELSE Continue(f)

\* Mutant: the record is built before the table index is looked at
RowCheckBuildFirst(numeric, f) ==
    IF RowComplete(f)
    THEN IF Built(numeric, f).kind = "Ok"
         THEN Continue(Wipe(PushNorthbound(PushSouthbound(f, Built(numeric, f)).frame,
                                           Built(numeric, f)).frame))
         ELSE Stop(Built(numeric, f).kind, f)
    ELSE Continue(f)

\* lines 195-213: the row-completion check.  The staged texts are the same
\* at both calls of the record builder.
RowCheck(numeric, f) ==
    IF RowComplete(f)
    THEN LET s == PushSouthbound(f, Built(numeric, f))
         IN  IF s.kind # "Ok" THEN s
             ELSE IF PushNorthbound(s.frame, Built(numeric, f)).kind # "Ok"
             THEN PushNorthbound(s.frame, Built(numeric, f))
             ELSE Continue(Wipe(PushNorthbound(s.frame, Built(numeric, f)).frame))
    ELSE Continue(f)

\* The static once the row-completion check is done: a record builder is
\* called for a complete row under table 1 or 2 only.
StaticAfter(numeric, f) ==
    IF RowComplete(f) /\ f.current_table_no \in {1, 2}
    THEN NumericAfter(numeric, Unwrap(f.train_id), Unwrap(f.train_type))
    ELSE numeric

\* What from_html has returned once walk is done with a node: nothing yet
\* while the walk goes on; the snapshot after the document node (lines
\* 228-231); an error, which every walk call on the stack passes up (lines
\* 180, 226)
ResultOf(out, last) ==
    CASE out.kind = "Ok" -> IF last THEN OkStatus(out.frame) ELSE NoResult
      [] out.kind = "Err" -> Err("InvalidIntError")
      [] out.kind = "Panic" -> Panic

\* History: the row the staging slots hold
StagedRow(f) ==
    [no    |-> f.current_table_no,
     tid   |-> Unwrap(f.train_id),
     ttype |-> Unwrap(f.train_type),
     tta   |-> Unwrap(f.time_till_arrival)]

\* line 183: the pending class and the last text are both set
Commits(f) == IsSome(f.last_read_class) /\ IsSome(f.last_text)

LastReadClasses == {"TrainId", "TrainType", "TimeTillArrival"}

\* History: no staging slot has been filled yet
NotStaged == [cls \in LastReadClasses |-> -1]

\* History: the table index at which each staging slot was filled last, once
\* the commit step is done on the locals f
StagedNoAfter(at, f) ==
    IF Commits(f)
    THEN [at EXCEPT ![Unwrap(f.last_read_class)] = f.current_table_no]
    ELSE at

\* History: the element sets the pending class
SetsPendingClass(attr) == IsSome(ElementNode(FromHtmlLocals, attr).last_read_class)

\* History: walk enters a field-marker element at nesting level level, the
\* locals being f before it
CellOpened(f, attr, level) ==
    Some([level        |-> level,
          cls          |-> Unwrap(ElementNode(FromHtmlLocals, attr).last_read_class),
          pending_text |-> IsSome(f.last_text),
          texts        |-> 0,
          first        |-> None,
          last         |-> None,
          wrote        |-> None])

\* History: the field-marker element walk is inside of, after the visit of
\* a node of its subtree: t the content of the node when it is a text node,
\* f the locals at the node's commit step
CellAfter(cl, f, t) ==
    IF ~IsSome(cl) THEN cl
    ELSE Some([Unwrap(cl) EXCEPT
                 !.texts = IF IsSome(t) /\ @ < 2 THEN @ + 1 ELSE @,
                 !.first = IF IsSome(t) /\ Unwrap(cl).texts = 0 THEN t ELSE @,
                 !.last  = IF IsSome(t) THEN t ELSE @,
                 !.wrote = IF Commits(f) /\ Unwrap(f.last_read_class) = Unwrap(cl).cls
                           THEN f.last_text ELSE @])

\* History of a node's visit: f the locals at its commit step, t the content
\* of the node when it is a text node, leaving: the node is an element whose
\* children are done
Track(f, t, leaving) ==
    /\ visited_text' = t
    /\ committed' = IF Commits(f)
                    THEN Some([cls   |-> Unwrap(f.last_read_class),
                               text  |-> Unwrap(f.last_text),
                               fresh |-> IsSome(t) \/ ~stale])
                    ELSE None
    /\ stale' = IF Commits(f) \/ IsSome(t) THEN FALSE ELSE stale
    /\ staged_no' = StagedNoAfter(staged_no, f)
    /\ seen' = IF IsSome(t) THEN seen + 1 ELSE seen
    /\ IF leaving /\ IsSome(cell) /\ Unwrap(cell).level = depth
       THEN closed' = CellAfter(cell, f, t) /\ cell' = None
       ELSE closed' = None /\ cell' = CellAfter(cell, f, t)

\* History: the table index of a completed row and, under table 1 or 2, what
\* the record builder makes of its three texts
RowEntry(numeric, f) ==
    [no    |-> f.current_table_no,
     built |-> IF f.current_table_no \in {1, 2}
               THEN Built(numeric, f)
               ELSE [kind |-> "Dropped", train |-> NoTrain]]

\* History: an element whose class attribute is, or has as its last token,
\* the subtable marker
IsSubtableMarker(attr) ==
    /\ IsSome(attr)
    /\ \/ Unwrap(attr) = SUBTABLE
       \/ ends_with(Unwrap(attr), " " \o SUBTABLE)

MarkersAfter(attr, n) == IF IsSubtableMarker(attr) THEN n + 1 ELSE n

Trace == <<visited_text, committed, stale, staged_no, seen, cell, closed>>
Second == <<frame2, result2, NUMERIC2>>
Alone == <<b_tid, b_ttype, b_tta, b_pc, b_out>>
Notify == <<notifier, status, now, shown, kept, missed, lapsed>>
Fetch == <<sys, polls, in_flight, outcome, issued>>
Element == <<e_attr, e_before, e_pc, e_after>>
Rest == <<Notify, Fetch, Element>>

\* The part of a node's visit that follows its children (lines 182-213), on
\* the locals f, for the from_html call whose locals are frame; last: the
\* node is the document node, after which from_html returns
Finish(f, last) ==
    \E c \in {Commit(f)} : \E out \in {RowCheck(NUMERIC, c)} :
        /\ RowComplete(c) => Len(rows) < MaxRows
        /\ frame' = out.frame
        /\ rows' = IF RowComplete(c) THEN Append(rows, RowEntry(NUMERIC, c)) ELSE rows
        /\ last_row' = IF RowComplete(c) THEN Some(StagedRow(c)) ELSE None
        /\ NUMERIC' = StaticAfter(NUMERIC, c)
        /\ result' = ResultOf(out, last)
        /\ pc' = IF out.kind = "Ok" /\ ~last THEN "walk" ELSE "done"

\* lines 96-118: from_html is called, the document is read and parsed
Begin ==
    /\ pc = "idle"
    /\ pc' = "walk"
    /\ frame' = FromHtmlLocals
    /\ UNCHANGED <<depth, prev_text, result, NUMERIC, rows, last_row, markers, Trace, Second, Alone, Rest>>

\* line 118: reading the document fails
ReadError ==
    /\ pc = "idle"
    /\ pc' = "done"
    /\ frame' = FromHtmlLocals
    /\ result' = Err("HtmlError")
    /\ UNCHANGED <<depth, prev_text, NUMERIC, rows, last_row, markers, Trace, Second, Alone, Rest>>

\* walk enters an element node (lines 145-163) and goes on to its children
WalkElement(attr) ==
    /\ pc = "walk"
    /\ depth < MaxDepth
    /\ ElementNode(frame, attr).current_table_no <= MaxTables
    /\ frame' = ElementNode(frame, attr)
    /\ depth' = depth + 1
    /\ prev_text' = FALSE
    /\ last_row' = None
    /\ markers' = MarkersAfter(attr, markers)
    /\ UNCHANGED <<pc, result, NUMERIC, rows, Second, Alone, Rest>>

\* walk on a text node, which has no children (lines 164-166, 182-213)
WalkText(contents) ==
    /\ pc = "walk"
    /\ ~prev_text
    /\ Finish(TextNode(frame, contents), FALSE)
    /\ prev_text' = TRUE
    /\ UNCHANGED <<depth, markers, Second, Alone, Rest>>

\* walk on a comment or doctype node (lines 167, 182-213)
WalkOther ==
    /\ pc = "walk"
    /\ Finish(frame, FALSE)
    /\ prev_text' = FALSE
    /\ UNCHANGED <<depth, markers, Second, Alone, Rest>>

\* the children of an element are done (lines 182-213)
WalkLeaveElement ==
    /\ pc = "walk"
    /\ depth > 0
    /\ Finish(frame, FALSE)
    /\ depth' = depth - 1
    /\ prev_text' = FALSE
    /\ UNCHANGED <<markers, Second, Alone, Rest>>

\* the children of the document node are done: walk returns to from_html,
\* which returns the snapshot (lines 182-213, 216-231)
WalkLeaveDocument ==
    /\ pc = "walk"
    /\ depth = 0
    /\ Finish(frame, TRUE)
    /\ UNCHANGED <<depth, prev_text, markers, Second, Alone, Rest>>

VisitElement(attr) == WalkElement(attr) /\ UNCHANGED Trace

VisitText(contents) == WalkText(contents) /\ UNCHANGED Trace

VisitOther == WalkOther /\ UNCHANGED Trace

LeaveElement == WalkLeaveElement /\ UNCHANGED Trace

LeaveDocument == WalkLeaveDocument /\ UNCHANGED Trace

\* The same steps with the history of the commits kept
TracedVisitElement(attr) ==
    /\ WalkElement(attr)
    /\ visited_text' = None
    /\ committed' = None
    /\ closed' = None
    /\ stale' = IF SetsPendingClass(attr) THEN IsSome(frame.last_text) ELSE stale
    /\ cell' = IF SetsPendingClass(attr) THEN CellOpened(frame, attr, depth + 1) ELSE cell
    /\ UNCHANGED <<staged_no, seen>>

TracedVisitText(contents) ==
    /\ seen < MaxTexts
    /\ WalkText(contents)
    /\ Track(TextNode(frame, contents), Some(contents), FALSE)

TracedVisitOther == WalkOther /\ Track(frame, None, FALSE)

TracedLeaveElement == WalkLeaveElement /\ Track(frame, None, TRUE)

TracedLeaveDocument == WalkLeaveDocument /\ Track(frame, None, FALSE)

-----------------------------------------------------------------------------
(* The Notifier actor (src/src/daemon/notifier.rs) *)

Directions == {"Northbound", "Southbound"}

\* struct CaltrainStatus
CaltrainStatus(northbound, southbound) ==
    [northbound |-> northbound, southbound |-> southbound]

\* CaltrainStatus::get_status: (northbound, southbound)
get_status(st) == <<st.northbound, st.southbound>>

\* Notifier::new
NotifierNew(notify_types, notify_at, direction, notify_after) ==
    [ notify_at       |-> notify_at,
      notify_types    |-> notify_types,
      trains_notified |-> {},
      direction       |-> direction,
      notify_after    |-> notify_after ]

\* lines 49-53: handle goes on unless notify_after is set and the local time
\* is before it
PastNotifyAfter(n, t) ==
    IF IsSome(n.notify_after) THEN ~(t < Unwrap(n.notify_after)) ELSE TRUE

\* lines 55-61
IncomingTrains(n, st) ==
    IF n.direction = "Northbound" THEN get_status(st)[1] ELSE get_status(st)[2]

\* line 67
TypeNotified(n, train) == train.ttype \in n.notify_types

\* Mutant: a train departing in exactly notify_at minutes is left out
DepartsWithinStrict(n, train) == train.min_till_departure < n.notify_at

\* line 68
DepartsWithin(n, train) == train.min_till_departure <= n.notify_at

\* line 69
NotYetNotified(n, train) == train.id \notin n.trains_notified

\* lines 65-69: the trains the loop of lines 71-91 shows a notification for
TrainsToNotify(n, incoming_trains) ==
    SelectSeq(incoming_trains,
              LAMBDA train : /\ TypeNotified(n, train)
                             /\ DepartsWithin(n, train)
                             /\ NotYetNotified(n, train))

IdsOf(trains) == {trains[i].id : i \in 1..Len(trains)}

\* Mutant: the ids notified before are not carried over
TrainsNotifiedNewOnly(n, incoming_trains) ==
    IdsOf(TrainsToNotify(n, incoming_trains))

\* Mutant: the ids notified before are all carried over, listed or not
TrainsNotifiedKeepsAll(n, incoming_trains) ==
    IdsOf(TrainsToNotify(n, incoming_trains)) \cup n.trains_notified

\* lines 63, 72, 93-103: the ids notified by this call, and the ids notified
\* before that the snapshot still lists
TrainsNotifiedAfter(n, incoming_trains) ==
    IdsOf(TrainsToNotify(n, incoming_trains))
        \cup {id \in n.trains_notified : id \in IdsOf(incoming_trains)}

\* The trains of the snapshots delivered
SnapshotTrains ==
    {IncomingTrain(428, "Local", 10), IncomingTrain(429, "Limited", 10),
     IncomingTrain(430, "Local", 11)}

TrainLists ==
    {<<>>} \cup {<<a>> : a \in SnapshotTrains}
           \cup {<<a, b>> : a \in SnapshotTrains, b \in SnapshotTrains}

Snapshots == {CaltrainStatus(n, s) : n \in TrainLists, s \in TrainLists}

\* Times of day, in hours
Times == {6, 18}

Notifiers ==
    {NotifierNew(types, 10, direction, notify_after) :
        types \in {{"Local"}, {"Local", "Limited"}},
        direction \in Directions,
        notify_after \in {None, Some(12)}}

\* Handler<CaltrainStatus>::handle (lines 48-104), called with the message st
\* at local time t
Handle(st, t) ==
    /\ status' = st
    /\ now' = t
    /\ IF PastNotifyAfter(notifier, t)
       THEN /\ shown' = TrainsToNotify(notifier, IncomingTrains(notifier, st))
            /\ notifier' = [notifier EXCEPT !.trains_notified =
                               TrainsNotifiedAfter(notifier, IncomingTrains(notifier, st))]
            /\ kept' = (kept \cap IdsOf(IncomingTrains(notifier, st)))
                          \cup IdsOf(TrainsToNotify(notifier, IncomingTrains(notifier, st)))
            /\ missed' = (missed \ IdsOf(TrainsToNotify(notifier, IncomingTrains(notifier, st))))
                            \cup (kept \ IdsOf(IncomingTrains(notifier, st)))
            /\ lapsed' = (lapsed \ IdsOf(TrainsToNotify(notifier, IncomingTrains(notifier, st))))
                            \cup ((kept \cup missed) \ IdsOf(IncomingTrains(notifier, st)))
       ELSE /\ shown' = <<>>
            /\ notifier' = notifier
            /\ kept' = kept \cap IdsOf(IncomingTrains(notifier, st))
            /\ missed' = missed \cup (kept \ IdsOf(IncomingTrains(notifier, st)))
            /\ lapsed' = lapsed
    /\ UNCHANGED <<pc, frame, depth, prev_text, result, NUMERIC, rows, last_row, markers, Trace,
                   Second, Alone, Fetch, Element>>

-----------------------------------------------------------------------------
(* The CStatusFetcher actor (src/src/daemon/cstatus_fetcher.rs) *)

\* What a poll gets from the station's page: a failed request, a payload
\* that cannot be read, bytes that are not UTF-8, or a page with one row of
\* the three texts in its first subtable.
Pages ==
    {[kind |-> "RequestError", row |-> <<>>],
     [kind |-> "PayloadError", row |-> <<>>],
     [kind |-> "InvalidUtf8", row |-> <<>>],
     [kind |-> "Html", row |-> <<"429", "Local", "6 min.">>],
     [kind |-> "Html", row |-> <<"70000", "Local", "6 min.">>],
     [kind |-> "Html", row |-> <<"429", "Express", "6 min.">>]}

\* from_html on a page whose only row completes under table index 1: the
\* row-completion check on the three staged texts, then the return
FromHtmlOneRow(numeric, row) ==
    ResultOf(RowCheck(numeric, [FromHtmlLocals EXCEPT
                                   !.train_id = Some(row[1]),
                                   !.train_type = Some(row[2]),
                                   !.time_till_arrival = Some(row[3]),
                                   !.current_table_no = 1]),
             TRUE)

\* async fn update_status (lines 21-52): what the future resolves to, or
\* "Panic" when from_html panics while it is polled
update_status(numeric, page) ==
    CASE page.kind = "RequestError" -> "Err: error making request to caltrain"
      [] page.kind = "PayloadError" -> "Err: invalid payload from caltrain"
      [] page.kind = "InvalidUtf8" ->
            "Err: error while parsing resposne from caltrain as utf-8"
      [] page.kind = "Html" ->
            LET r == FromHtmlOneRow(numeric, page.row)
            IN  CASE r.kind = "Ok" -> "Ok"
                  [] r.kind = "Err" -> "Err: error parsing caltrain xml"
                  [] r.kind = "Panic" -> "Panic"

\* Mutant: the future spawned for the poll before is dropped
run_status_update_alone ==
    /\ polls' = polls + 1
    /\ in_flight' = {polls + 1}

\* fn run_status_update (lines 54-65): the future of a new poll is spawned
\* on the actor's context
run_status_update ==
    /\ polls' = polls + 1
    /\ in_flight' = in_flight \cup {polls + 1}

\* Actor::started (lines 71-76): the interval is registered and the first
\* poll is started at once
Started ==
    /\ sys = "new"
    /\ sys' = "running"
    /\ run_status_update
    /\ UNCHANGED <<outcome, issued, pc, frame, depth, prev_text, result, NUMERIC,
                   rows, last_row, markers, Trace, Second, Alone, Notify, Element>>

\* the closure given to run_interval (lines 72-74), every refresh interval
IntervalTick ==
    /\ sys = "running"
    /\ polls < MaxPolls
    /\ run_status_update
    /\ UNCHANGED <<sys, outcome, issued, pc, frame, depth, prev_text, result, NUMERIC,
                   rows, last_row, markers, Trace, Second, Alone, Notify, Element>>

\* the closure given to map (lines 60-63), run when the future of poll p
\* has resolved to res: the snapshot is issued to the broker or the error
\* printed; a panic unwinds the thread the System runs on
Resolved(p, res) ==
    /\ in_flight' = in_flight \ {p}
    /\ outcome' = [outcome EXCEPT ![p] = res]
    /\ issued' = IF res = "Ok" THEN Append(issued, p) ELSE issued
    /\ sys' = IF res = "Panic" THEN "panicked" ELSE sys

\* the future of poll p, spawned at lines 55-64, gets the page and resolves
UpdateStatus(p, page) ==
    /\ sys = "running"
    /\ p \in in_flight
    /\ Resolved(p, update_status(NUMERIC, page))
    /\ NUMERIC' = IF page.kind = "Html"
                  THEN NumericAfter(NUMERIC, page.row[1], page.row[2])
                  ELSE NUMERIC
    /\ UNCHANGED <<polls, pc, frame, depth, prev_text, result, rows, last_row, markers, Trace,
                   Second, Alone, Notify, Element>>

NotAlone ==
    /\ b_tid = ""
    /\ b_ttype = ""
    /\ b_tta = ""
    /\ b_pc = "none"
    /\ b_out = BuildErr

NoWalk ==
    /\ pc = "idle"
    /\ frame = FromHtmlLocals
    /\ depth = 0
    /\ prev_text = FALSE
    /\ result = NoResult
    /\ rows = <<>>
    /\ last_row = None
    /\ markers = 0
    /\ visited_text = None
    /\ committed = None
    /\ stale = FALSE
    /\ staged_no = NotStaged
    /\ seen = 0
    /\ cell = None
    /\ closed = None

NoSecond ==
    /\ frame2 = FromHtmlLocals
    /\ result2 = NoResult
    /\ NUMERIC2 = "uninit"

NoHandle ==
    /\ status = CaltrainStatus(<<>>, <<>>)
    /\ now = 0
    /\ shown = <<>>
    /\ kept = {}
    /\ missed = {}
    /\ lapsed = {}

NoNotifier ==
    /\ notifier = NotifierNew({}, 0, "Northbound", None)
    /\ NoHandle

\* CStatusFetcher::new: no poll yet
NoFetcher ==
    /\ sys = "new"
    /\ polls = 0
    /\ in_flight = {}
    /\ outcome = [p \in 1..MaxPolls |-> ""]
    /\ issued = <<>>

NoElement ==
    /\ e_attr = None
    /\ e_before = FromHtmlLocals
    /\ e_pc = "none"
    /\ e_after = FromHtmlLocals

NoRest == NoNotifier /\ NoFetcher /\ NoElement

Init ==
    /\ NoWalk
    /\ NUMERIC = "uninit"
    /\ NoSecond
    /\ NotAlone
    /\ NoRest

Next ==
    \/ Begin
    \/ ReadError
    \/ \E attr \in ClassAttrs : VisitElement(attr)
    \/ \E contents \in Texts : VisitText(contents)
    \/ VisitOther
    \/ LeaveElement
    \/ LeaveDocument

Spec == Init /\ [][Next]_vars

-----------------------------------------------------------------------------
(* The record builder called alone *)

IdTexts == {"429", "65535", "65536", "+7", "12a", "Local"}

TypeLabels ==
    {"Local", "Limited", "Baby Bullet", "Limited Local", "Baby Bullet Limited",
     "Baby Bullet Local", "BabyBullet", "Express", "local"}

TimeTexts ==
    {"6 min.", "Departed", "On Time", "9001", "65535 min.", "65536 min.",
     "70000 min 5", "5 min 70000", "in 12 min 30 s", "007"}

StaticStates == {"uninit", "[0-9]+"}

\* lines 120-129: make_incoming_train runs and returns
BuildReturn ==
    /\ b_pc = "called"
    /\ b_out' = make_incoming_train(NUMERIC, b_tid, b_ttype, b_tta)
    /\ NUMERIC' = NumericAfter(NUMERIC, b_tid, b_ttype)
    /\ b_pc' = "returned"
    /\ UNCHANGED <<b_tid, b_ttype, b_tta, pc, frame, depth, prev_text, result,
                   rows, last_row, markers, Trace, Second, Rest>>

InitBuild ==
    /\ NoWalk
    /\ NoSecond
    /\ NUMERIC \in StaticStates
    /\ b_tid \in IdTexts
    /\ b_ttype \in TypeLabels
    /\ b_tta \in TimeTexts
    /\ b_pc = "called"
    /\ b_out = BuildErr
    /\ NoRest

NextBuild == BuildReturn

SpecBuild == InitBuild /\ [][NextBuild]_vars

-----------------------------------------------------------------------------
(* Two from_html calls on one document, stepped side by side: the first on *)
(* frame and NUMERIC, the second on frame2 and NUMERIC2.  The first is the *)
(* first call the process makes; the second finds the static as the calls  *)
(* before it left it, compiled or not.                                     *)

\* The second call's part of a node's visit that follows its children
SecondFinish(f, last) ==
    \E c \in {Commit(f)} : \E out \in {RowCheck(NUMERIC2, c)} :
        /\ frame2' = out.frame
        /\ NUMERIC2' = StaticAfter(NUMERIC2, c)
        /\ result2' = ResultOf(out, last)

BothBegin ==
    /\ pc = "idle"
    /\ pc' = "walk"
    /\ frame' = FromHtmlLocals
    /\ frame2' = FromHtmlLocals
    /\ UNCHANGED <<depth, prev_text, result, NUMERIC, rows, last_row, markers, Trace,
                   result2, NUMERIC2, Alone, Rest>>

BothReadError ==
    /\ pc = "idle"
    /\ pc' = "done"
    /\ frame' = FromHtmlLocals
    /\ frame2' = FromHtmlLocals
    /\ result' = Err("HtmlError")
    /\ result2' = Err("HtmlError")
    /\ UNCHANGED <<depth, prev_text, NUMERIC, rows, last_row, markers, Trace, NUMERIC2, Alone, Rest>>

BothVisitElement(attr) ==
    /\ pc = "walk"
    /\ depth < MaxDepth
    /\ ElementNode(frame, attr).current_table_no <= MaxTables
    /\ frame' = ElementNode(frame, attr)
    /\ frame2' = ElementNode(frame2, attr)
    /\ depth' = depth + 1
    /\ prev_text' = FALSE
    /\ last_row' = None
    /\ markers' = MarkersAfter(attr, markers)
    /\ UNCHANGED <<pc, result, NUMERIC, rows, Trace, result2, NUMERIC2, Alone, Rest>>

BothVisitText(contents) ==
    /\ pc = "walk"
    /\ ~prev_text
    /\ Finish(TextNode(frame, contents), FALSE)
    /\ SecondFinish(TextNode(frame2, contents), FALSE)
    /\ prev_text' = TRUE
    /\ UNCHANGED <<depth, markers, Trace, Alone, Rest>>

BothVisitOther ==
    /\ pc = "walk"
    /\ Finish(frame, FALSE)
    /\ SecondFinish(frame2, FALSE)
    /\ prev_text' = FALSE
    /\ UNCHANGED <<depth, markers, Trace, Alone, Rest>>

BothLeaveElement ==
    /\ pc = "walk"
    /\ depth > 0
    /\ Finish(frame, FALSE)
    /\ SecondFinish(frame2, FALSE)
    /\ depth' = depth - 1
    /\ prev_text' = FALSE
    /\ UNCHANGED <<markers, Trace, Alone, Rest>>

BothLeaveDocument ==
    /\ pc = "walk"
    /\ depth = 0
    /\ Finish(frame, TRUE)
    /\ SecondFinish(frame2, TRUE)
    /\ UNCHANGED <<depth, prev_text, markers, Trace, Alone, Rest>>

InitTwice ==
    /\ NoWalk
    /\ NUMERIC = "uninit"
    /\ frame2 = FromHtmlLocals
    /\ result2 = NoResult
    /\ NUMERIC2 \in StaticStates
    /\ NotAlone
    /\ NoRest

NextTwice ==
    \/ BothBegin
    \/ BothReadError
    \/ \E attr \in ClassAttrs : BothVisitElement(attr)
    \/ \E contents \in Texts : BothVisitText(contents)
    \/ BothVisitOther
    \/ BothLeaveElement
    \/ BothLeaveDocument

SpecTwice == InitTwice /\ [][NextTwice]_vars

-----------------------------------------------------------------------------
(* One Notifier and the snapshots delivered to it, one handle call each *)

InitNotify ==
    /\ NoWalk
    /\ NUMERIC = "uninit"
    /\ NoSecond
    /\ NotAlone
    /\ notifier \in Notifiers
    /\ NoHandle
    /\ NoFetcher
    /\ NoElement

NextNotify == \E st \in Snapshots, t \in Times : Handle(st, t)

SpecNotify == InitNotify /\ [][NextNotify]_vars

-----------------------------------------------------------------------------
(* The walk of one document with the history of its commits kept *)

InitTrace == Init

NextTrace ==
    \/ Begin
    \/ ReadError
    \/ \E attr \in ClassAttrs : TracedVisitElement(attr)
    \/ \E contents \in Texts : TracedVisitText(contents)
    \/ TracedVisitOther
    \/ TracedLeaveElement
    \/ TracedLeaveDocument

SpecTrace == InitTrace /\ [][NextTrace]_vars

-----------------------------------------------------------------------------
(* One element node visited alone *)

\* Values of the class attribute
ClassValues ==
    ClassAttrs \cup
    {Some(v) : v \in {"", "xipf-st-ip-trains-subtable", "ipf-st-ip-trains-subtable even",
                      "ipf-st-ip-trains-subtable-td-type ",
                      "first ipf-st-ip-trains-subtable-td-arrivaltime",
                      "ipf-st-ip-trains-subtable ipf-st-ip-trains-subtable-td-id",
                      "ipf-st-ip-trains-subtable-td-arrivaltime ipf-st-ip-trains-subtable",
                      "IPF-ST-IP-TRAINS-SUBTABLE"}}

\* The locals as walk may find them at an element
LocalsBefore ==
    {[FromHtmlLocals EXCEPT !.current_table_no = no, !.last_read_class = cls] :
        no \in 0..MaxTables, cls \in {None} \cup {Some(c) : c \in LastReadClasses}}

\* lines 145-163 run on the element
ElementVisited ==
    /\ e_pc = "visit"
    /\ e_after' = ElementNode(e_before, e_attr)
    /\ e_pc' = "children"
    /\ UNCHANGED <<e_attr, e_before, pc, frame, depth, prev_text, result, NUMERIC,
                   rows, last_row, markers, Trace, Second, Alone, Notify, Fetch>>

InitElement ==
    /\ NoWalk
    /\ NUMERIC = "uninit"
    /\ NoSecond
    /\ NotAlone
    /\ NoNotifier
    /\ NoFetcher
    /\ e_attr \in ClassValues
    /\ e_before \in LocalsBefore
    /\ e_pc = "visit"
    /\ e_after = e_before

NextElement == ElementVisited

SpecElement == InitElement /\ [][NextElement]_vars

-----------------------------------------------------------------------------
(* The CStatusFetcher alone: its polls and how they resolve *)

InitFetch == Init

NextFetch ==
    \/ Started
    \/ IntervalTick
    \/ \E p \in 1..MaxPolls, page \in Pages : UpdateStatus(p, page)

SpecFetch == InitFetch /\ [][NextFetch]_vars

-----------------------------------------------------------------------------
(* Properties *)

HasDigit(s) == \E i \in 1..Len(s) : IsDigit(Char(s, i))

\* s is the decimal text of an unsigned 16-bit integer
IsU16Text(s) ==
    LET d == IF Len(s) > 0 /\ Char(s, 1) = "+" THEN SubSeq(s, 2, Len(s)) ELSE s
    IN  Len(d) > 0 /\ AllDigits(d) /\ Decimal(d) <= 65535

KnownLabel(l) ==
    Contains(l, "Local") \/ Contains(l, "Limited") \/ Contains(l, "Baby Bullet")

\* s[a..e] is the leftmost maximal run of ASCII digits of s
IsFirstRun(s, a, e) ==
    /\ a <= e
    /\ \A k \in a..e : IsDigit(Char(s, k))
    /\ \A k \in 1..(a - 1) : ~IsDigit(Char(s, k))
    /\ e = Len(s) \/ ~IsDigit(Char(s, e + 1))

\* a record can be made of the three texts
Buildable(tid, ttype, tta) ==
    /\ IsU16Text(tid)
    /\ KnownLabel(ttype)
    /\ \A a, e \in 1..Len(tta) :
          IsFirstRun(tta, a, e) => Decimal(SubSeq(tta, a, e)) <= 65535

RECURSIVE TrainsUnder(_, _)
\* the records of the rows completed under table index no, in order
TrainsUnder(rs, no) ==
    IF rs = <<>> THEN <<>>
    ELSE (IF Head(rs).no = no THEN <<Head(rs).built.train>> ELSE <<>>)
            \o TrainsUnder(Tail(rs), no)

Parsed == result.error # "HtmlError"

EveryRowInBlocks == \A i \in 1..Len(rows) : rows[i].no \in {1, 2}

EveryRowBuilt ==
    \A i \in 1..Len(rows) : rows[i].no \in {1, 2} => rows[i].built.kind = "Ok"

\* C1: when every row of a parsed document completes under table index 1
\* or 2 and a record can be made of each, from_html returns a snapshot whose
\* southbound is the records of the rows completed under index 1 and whose
\* northbound is those of the rows completed under index 2, each in the order
\* of completion, and the two lists together hold every row once.
C1_BlocksRouted ==
    (pc = "done" /\ Parsed /\ EveryRowInBlocks /\ EveryRowBuilt) =>
        /\ result.kind = "Ok"
        /\ result.southbound = TrainsUnder(rows, 1)
        /\ result.northbound = TrainsUnder(rows, 2)
        /\ Len(result.southbound) + Len(result.northbound) = Len(rows)

C1_Witness ==
    /\ pc = "done"
    /\ result.kind = "Ok"
    /\ EveryRowInBlocks
    /\ Len(result.southbound) = 1
    /\ Len(result.northbound) = 1

\* C2: routing goes by the table index alone: when no row completes under
\* index 1, from_html returns Ok with southbound empty and northbound the
\* records of the rows completed under index 2, in order; and the same with
\* the two exchanged.
C2_EitherEmpty ==
    (pc = "done" /\ Parsed /\ EveryRowBuilt) =>
        /\ (\A i \in 1..Len(rows) : rows[i].no # 1) =>
              /\ result.kind = "Ok"
              /\ result.southbound = <<>>
              /\ result.northbound = TrainsUnder(rows, 2)
        /\ (\A i \in 1..Len(rows) : rows[i].no # 2) =>
              /\ result.kind = "Ok"
              /\ result.northbound = <<>>
              /\ result.southbound = TrainsUnder(rows, 1)

C2_Witness ==
    /\ pc = "done"
    /\ result.kind = "Ok"
    /\ result.southbound = <<>>
    /\ Len(result.northbound) = 2
    /\ result.northbound[1] # result.northbound[2]

\* C3: as long as a parsed document has shown no subtable-marker element,
\* both lists are empty and nothing has failed, whatever rows completed; at
\* its end from_html returns Ok with both lists empty.
C3_NoMarker ==
    (markers = 0 /\ Parsed) =>
        /\ frame.southbound = <<>>
        /\ frame.northbound = <<>>
        /\ result.kind \in {"None", "Ok"}
        /\ pc = "done" => result = OkStatus(FromHtmlLocals)

C3_Witness ==
    /\ pc = "done"
    /\ markers = 0
    /\ Len(rows) > 0
    /\ IsSome(frame.train_id)
    /\ ~IsU16Text(Unwrap(frame.train_id))
    /\ result.kind = "Ok"

\* C4: a row under table 1 or 2 whose type label contains none of the three
\* names makes from_html return an error, and from_html never panics.
C4_TypedFailure ==
    /\ result.kind # "Panic"
    /\ (/\ IsSome(last_row)
        /\ Unwrap(last_row).no \in {1, 2}
        /\ IsU16Text(Unwrap(last_row).tid)
        /\ ~KnownLabel(Unwrap(last_row).ttype)) => result.kind = "Err"

\* C5 as stated: whenever a row completes whose identifier text is no
\* unsigned 16-bit integer, from_html fails, whatever the table index.
C5_AnyTableIndex ==
    (IsSome(last_row) /\ ~IsU16Text(Unwrap(last_row).tid)) => result.kind = "Err"

\* C5 as amended: a row completing with an identifier text that is no
\* unsigned 16-bit integer makes from_html fail with InvalidIntError when the
\* table index is 1 or 2; under any other index the row is dropped unbuilt
\* and the walk goes on.
C5_BuiltTablesOnly ==
    (IsSome(last_row) /\ ~IsU16Text(Unwrap(last_row).tid)) =>
        IF Unwrap(last_row).no \in {1, 2}
        THEN result = Err("InvalidIntError") /\ pc = "done"
        ELSE result.kind = "None" /\ pc = "walk"

C5_Witness ==
    /\ IsSome(last_row)
    /\ Unwrap(last_row).tid = "70000"
    /\ Unwrap(last_row).no = 2
    /\ result.kind = "Err"

\* C6: when no record can be made of a row completed under table 1 or 2,
\* from_html returns an error, not a snapshot, and the walk is over.
C6_FailureNoSnapshot ==
    (/\ IsSome(last_row)
     /\ Unwrap(last_row).no \in {1, 2}
     /\ ~Buildable(Unwrap(last_row).tid, Unwrap(last_row).ttype, Unwrap(last_row).tta))
        => result.kind = "Err" /\ pc = "done"

\* C7: a time text without ASCII digit makes no call fail and gives
\* min_till_departure 9001; a time text with digits gives the value of its
\* first run of digits.
C7_Sentinel ==
    b_pc = "returned" =>
        IF HasDigit(b_tta)
        THEN b_out.kind = "Ok" =>
                \E a, e \in 1..Len(b_tta) :
                    /\ IsFirstRun(b_tta, a, e)
                    /\ b_out.train.min_till_departure = Decimal(SubSeq(b_tta, a, e))
        ELSE /\ (IsU16Text(b_tid) /\ KnownLabel(b_ttype)) => b_out.kind = "Ok"
             /\ b_out.kind = "Ok" => b_out.train.min_till_departure = 9001

C7_Witness ==
    /\ b_pc = "returned"
    /\ b_tta = "Departed"
    /\ b_out.kind = "Ok"
    /\ b_out.train.min_till_departure = 9001

\* C8: with an accepted identifier and type, a time text with digits gives
\* the value of its leftmost maximal run of digits when that is at most
\* 65535, and an error when it is more, whatever runs follow.
C8_FirstRun ==
    (b_pc = "returned" /\ IsU16Text(b_tid) /\ KnownLabel(b_ttype)) =>
        \A a, e \in 1..Len(b_tta) :
            IsFirstRun(b_tta, a, e) =>
                IF Decimal(SubSeq(b_tta, a, e)) <= 65535
                THEN /\ b_out.kind = "Ok"
                     /\ b_out.train.min_till_departure = Decimal(SubSeq(b_tta, a, e))
                ELSE b_out.kind = "Err"

C8_Witness ==
    /\ b_pc = "returned"
    /\ b_tta = "70000 min 5"
    /\ IsU16Text(b_tid)
    /\ KnownLabel(b_ttype)
    /\ b_out.kind = "Err"

\* C9: with an accepted identifier, a label containing "Local" gives Local;
\* otherwise one containing "Limited" gives Limited; otherwise one containing
\* "Baby Bullet" gives BabyBullet; a label containing none of them gives no
\* record.
C9_OrderedContainment ==
    (b_pc = "returned" /\ IsU16Text(b_tid)) =>
        /\ KnownLabel(b_ttype) => b_out.kind \in {"Ok", "Err"}
        /\ ~KnownLabel(b_ttype) => b_out.kind = "Panic"
        /\ b_out.kind = "Ok" =>
              b_out.train.ttype =
                 IF Contains(b_ttype, "Local") THEN "Local"
                 ELSE IF Contains(b_ttype, "Limited") THEN "Limited"
                 ELSE "BabyBullet"

C9_Witness ==
    /\ b_pc = "returned"
    /\ b_ttype = "Limited Local"
    /\ b_out.kind = "Ok"
    /\ b_out.train.ttype = "Local"

ListOf(st, direction) ==
    IF direction = "Southbound" THEN st.southbound ELSE st.northbound

OtherListOf(st, direction) ==
    IF direction = "Southbound" THEN st.northbound ELSE st.southbound

\* how many entries of the list are the train t
Count(trains, t) == Cardinality({i \in 1..Len(trains) : trains[i] = t})

\* before the call, the notifier n would notify the train t
Due(n, t) ==
    /\ t.ttype \in n.notify_types
    /\ ~(t.min_till_departure > n.notify_at)
    /\ \A id \in n.trains_notified : id # t.id

GateOpen(n, t) == n.notify_after = None \/ t >= n.notify_after[1]

\* C11: a handle call past the notify_after gate shows one notification for
\* each entry of the list of the configured direction whose type is in
\* notify_types, whose minutes are at most notify_at and whose id was not in
\* trains_notified before the call, and for nothing else; a train that is
\* only in the other direction's list gets none.  Before the gate the call
\* shows nothing.
C11_NotifiesExactlyDue ==
    [][ IF GateOpen(notifier, now')
        THEN /\ \A t \in SnapshotTrains :
                   Count(shown', t) =
                      IF Due(notifier, t)
                      THEN Count(ListOf(status', notifier.direction), t)
                      ELSE 0
             /\ \A i \in 1..Len(shown') : shown'[i] \in SnapshotTrains
             /\ \A t \in SnapshotTrains :
                   (/\ Count(OtherListOf(status', notifier.direction), t) > 0
                    /\ Count(ListOf(status', notifier.direction), t) = 0)
                      => Count(shown', t) = 0
        ELSE shown' = <<>>
      ]_vars

C11_Witness ==
    /\ GateOpen(notifier, now)
    /\ Len(ListOf(status, notifier.direction)) = 2
    /\ Len(shown) = 1
    /\ shown[1].min_till_departure = notifier.notify_at
    /\ \E i \in 1..Len(OtherListOf(status, notifier.direction)) :
          /\ OtherListOf(status, notifier.direction)[i].ttype \in notifier.notify_types
          /\ OtherListOf(status, notifier.direction)[i].min_till_departure
                <= notifier.notify_at
          /\ OtherListOf(status, notifier.direction)[i].id \notin notifier.trains_notified
          /\ Count(ListOf(status, notifier.direction),
                   OtherListOf(status, notifier.direction)[i]) = 0

\* C20: an id that was notified and has been in the configured direction's
\* list of every snapshot delivered since is not notified by the call that
\* handles the next snapshot listing it.
C20_NotifiedOnceWhilePresent ==
    [][ \A id \in kept :
            id \in IdsOf(ListOf(status', notifier.direction))
                => id \notin IdsOf(shown')
      ]_vars

C20_Witness ==
    /\ GateOpen(notifier, now)
    /\ shown = <<>>
    /\ \E i \in 1..Len(ListOf(status, notifier.direction)) :
          LET t == ListOf(status, notifier.direction)[i]
          IN  /\ t.id \in kept
              /\ t.ttype \in notifier.notify_types
              /\ t.min_till_departure <= notifier.notify_at

Failed(p) == outcome[p] \notin {"", "Ok"}

\* C12: a poll that failed issued no snapshot and left the System running,
\* so that the interval goes on starting polls; a poll that succeeded issued
\* exactly one snapshot.
C12_FailedPollKeepsSchedule ==
    \A p \in 1..MaxPolls :
        /\ Failed(p) => /\ Cardinality({i \in 1..Len(issued) : issued[i] = p}) = 0
                        /\ sys = "running"
        /\ outcome[p] = "Ok" =>
              Cardinality({i \in 1..Len(issued) : issued[i] = p}) = 1

\* the three staging slots are empty
SlotsEmpty(f) ==
    f.train_id = None /\ f.train_type = None /\ f.time_till_arrival = None

\* walk has returned Ok from every node so far
Walking(r) == r.kind \in {"None", "Ok"}

C14_TableIndexCountsMarkers ==
    /\ frame.current_table_no = 0
    /\ markers = 0
    /\ [][ /\ frame'.current_table_no = markers'
           /\ frame'.current_table_no - frame.current_table_no \in {0, 1}
           /\ frame'.current_table_no = frame.current_table_no + 1 <=> markers' = markers + 1
           /\ depth' < depth => frame'.current_table_no = frame.current_table_no
         ]_vars

C14_Witness ==
    /\ pc = "walk"
    /\ depth = 0
    /\ markers = 2
    /\ frame.current_table_no = 2

\* the class attribute has a value and the last characters of the value are
\* those of the marker m
EndsIn(attr, m) ==
    /\ attr # None
    /\ Len(attr[1]) >= Len(m)
    /\ \A i \in 1..Len(m) : Char(attr[1], Len(attr[1]) - Len(m) + i) = Char(m, i)

\* the pending class that goes with a field marker
FieldMarkers ==
    {<<TD_ID, "TrainId">>, <<TD_TYPE, "TrainType">>, <<TD_ARRIVALTIME, "TimeTillArrival">>}

\* C17: on an element the table index goes up by 1 exactly when the whole
\* class value ends with the subtable marker, and the pending class becomes
\* that of a field marker exactly when the value ends with that marker, and
\* stays as it was otherwise; nothing else changes.  So a value that goes on
\* with another token after a marker changes nothing, characters before the
\* marker do not matter, and a value ending with a field marker leaves the
\* table index alone.
C17_WholeValueSuffix ==
    [][ e_pc' = "children" =>
          /\ e_after'.current_table_no =
                IF EndsIn(e_attr, SUBTABLE)
                THEN e_before.current_table_no + 1 ELSE e_before.current_table_no
          /\ \A fm \in FieldMarkers :
                EndsIn(e_attr, fm[1]) =>
                    /\ e_after'.last_read_class = Some(fm[2])
                    /\ e_after'.current_table_no = e_before.current_table_no
          /\ (\A fm \in FieldMarkers : ~EndsIn(e_attr, fm[1])) =>
                e_after'.last_read_class = e_before.last_read_class
          /\ e_attr \in {Some(SUBTABLE \o " even"), Some(TD_ID \o " first"),
                         Some(TD_TYPE \o " ")} => e_after' = e_before
          /\ e_attr \in {Some("odd " \o SUBTABLE), Some("x" \o SUBTABLE)} =>
                e_after'.current_table_no = e_before.current_table_no + 1
          /\ e_after' = [e_before EXCEPT
                            !.current_table_no = e_after'.current_table_no,
                            !.last_read_class = e_after'.last_read_class]
      ]_vars

C17_Witness ==
    /\ e_pc = "children"
    /\ e_attr = Some(SUBTABLE \o " " \o TD_ID)
    /\ e_before.last_read_class = Some("TrainType")
    /\ e_after.last_read_class = Some("TrainId")
    /\ e_after.current_table_no = e_before.current_table_no

\* the staging slot that goes with a pending class
SlotOf(f, cls) ==
    CASE cls = "TrainId" -> f.train_id
      [] cls = "TrainType" -> f.train_type
      [] cls = "TimeTillArrival" -> f.time_till_arrival

\* the text of a completed row that goes with a pending class
FieldOf(row, cls) ==
    CASE cls = "TrainId" -> row.tid
      [] cls = "TrainType" -> row.ttype
      [] cls = "TimeTillArrival" -> row.tta

\* C15: a pending class that no commit consumes is still set when walk has
\* left an element; and the text node visited while a class is pending, at
\* whatever depth, is committed at once into the staging slot of that class:
\* the slot holds its content, or the row completed by the step does.
C15_PendingClassNotScoped ==
    [][ /\ (depth' < depth /\ IsSome(frame.last_read_class) /\ committed' = None) =>
              frame'.last_read_class = frame.last_read_class
        /\ (IsSome(visited_text') /\ IsSome(frame.last_read_class)) =>
              /\ committed' = Some([cls   |-> frame.last_read_class[1],
                                    text  |-> visited_text'[1],
                                    fresh |-> TRUE])
              /\ frame'.last_read_class = None
              /\ IF IsSome(last_row')
                 THEN FieldOf(last_row'[1], frame.last_read_class[1]) = visited_text'[1]
                 ELSE SlotOf(frame', frame.last_read_class[1]) = visited_text'
      ]_vars

C15_Witness ==
    /\ depth = 0
    /\ IsSome(visited_text)
    /\ IsSome(committed)
    /\ committed[1].cls = "TrainType"
    /\ frame.train_type = visited_text
    /\ cell = None

\* C16 as stated: when walk leaves a field-marker element in whose subtree it
\* visited two or more text nodes, the value written to the field's staging
\* slot is the content of the last of them.
C16_LastTextWins ==
    (IsSome(closed) /\ closed[1].texts >= 2) => closed[1].wrote = closed[1].last

\* C16 as amended: when walk leaves a field-marker element that it entered
\* with no text pending, that has no field-marker element below it and in
\* whose subtree it visited two or more text nodes, the value written to the
\* field's staging slot is the content of the first of them; the content of
\* the last one is in last_text, uncommitted.
C16_FirstTextWins ==
    (IsSome(closed) /\ closed[1].texts >= 2 /\ ~closed[1].pending_text) =>
        /\ closed[1].wrote = closed[1].first
        /\ frame.last_text = closed[1].last
        /\ frame.last_read_class = None

C16_Witness ==
    /\ IsSome(closed)
    /\ closed[1].texts >= 2
    /\ ~closed[1].pending_text
    /\ closed[1].cls = "TrainId"
    /\ closed[1].first = Some("429")
    /\ closed[1].last = Some("Local")
    /\ frame.train_id = Some("429")
    /\ frame.last_text = Some("Local")

\* C18 as stated: every commit writes the content of a text node visited
\* after the element that set the pending class.
C18_CommittedTextAfterMarker ==
    IsSome(committed) => committed[1].fresh

\* C18 as amended: a commit made at a text node writes that node's content,
\* visited after the element that set the pending class; a commit made at
\* any other node writes text visited before that element.  When a text is
\* pending as a field-marker element is visited, the first node walk is done
\* with after it, unless a text node, commits that earlier text as the
\* field's value.
C18_PendingTextCommitted ==
    [][ /\ IsSome(committed') =>
              /\ committed'[1].fresh <=> IsSome(visited_text')
              /\ IsSome(visited_text') => committed'[1].text = visited_text'[1]
        /\ (stale /\ depth' <= depth /\ ~IsSome(visited_text')) =>
              /\ IsSome(frame.last_read_class)
              /\ IsSome(frame.last_text)
              /\ committed' = Some([cls   |-> frame.last_read_class[1],
                                    text  |-> frame.last_text[1],
                                    fresh |-> FALSE])
              /\ \/ SlotOf(frame', frame.last_read_class[1]) = frame.last_text
                 \/ /\ IsSome(last_row')
                    /\ FieldOf(last_row'[1], frame.last_read_class[1]) = frame.last_text[1]
      ]_vars

C18_Witness ==
    /\ IsSome(committed)
    /\ ~committed[1].fresh
    /\ IsSome(closed)
    /\ closed[1].texts = 0
    /\ closed[1].cls = "TrainId"
    /\ closed[1].wrote = Some("Local")
    /\ frame.train_id = Some("Local")

\* C19 as stated: no record appended to northbound has a field staged while
\* the table index was 1, and none appended to southbound has a field staged
\* while it was 0.
C19_NoCarryOver ==
    (IsSome(last_row) /\ Walking(result)) =>
        /\ last_row[1].no = 2 => \A cls \in LastReadClasses : staged_no[cls] # 1
        /\ last_row[1].no = 1 => \A cls \in LastReadClasses : staged_no[cls] # 0

\* C19 as amended: the staging slots are cleared only when a row completes:
\* a step that changes the table index leaves the three slots as they are,
\* so that a field staged under one index is part of the first row completed
\* under a later one; each field of a completed row was staged at a table
\* index not above the index the row completes under.
C19_SlotsSurviveMarkers ==
    [][ /\ frame'.current_table_no # frame.current_table_no =>
              /\ frame'.train_id = frame.train_id
              /\ frame'.train_type = frame.train_type
              /\ frame'.time_till_arrival = frame.time_till_arrival
              /\ staged_no' = staged_no
        /\ IsSome(last_row') =>
              \A cls \in LastReadClasses : staged_no'[cls] \in 0..last_row'[1].no
      ]_vars

C19_Witness ==
    /\ IsSome(last_row)
    /\ last_row[1].no = 2
    /\ staged_no["TrainId"] = 1
    /\ staged_no["TrainType"] = 2
    /\ pc = "walk"
    /\ Len(frame.northbound) = 1
    /\ frame.northbound[1].id = 429

\* the snapshot st lists the train tr in the direction of the notifier n, with
\* a type n notifies and minutes of at most notify_at
ListedDue(n, tr, st) ==
    /\ Count(ListOf(st, n.direction), tr) > 0
    /\ tr.ttype \in n.notify_types
    /\ tr.min_till_departure <= n.notify_at

\* C21 as stated: an id that was notified is out of trains_notified as soon as
\* a delivered snapshot does not list it in the configured direction, and the
\* call handling a later snapshot that lists it again, with a matching type
\* and minutes of at most notify_at, notifies it again.
C21_ForgottenWhenAbsent ==
    /\ [](missed \cap notifier.trains_notified = {})
    /\ [][ \A tr \in SnapshotTrains :
               (tr.id \in missed /\ ListedDue(notifier, tr, status'))
                   => tr.id \in IdsOf(shown')
         ]_vars

\* C21 amended: a handle call before notify_after shows nothing and leaves
\* trains_notified as it was.  A notified id is forgotten by the first call
\* past notify_after whose snapshot does not list it, and is then notified
\* again by the call past notify_after whose snapshot lists it again with a
\* matching type and minutes of at most notify_at; an id missing only from
\* snapshots delivered before notify_after stays in trains_notified and is not
\* notified again when it is listed again.
C21_ForgottenPastGate ==
    /\ [](/\ lapsed \cap notifier.trains_notified = {}
          /\ (missed \ lapsed) \subseteq notifier.trains_notified)
    /\ [][ IF GateOpen(notifier, now')
           THEN \A tr \in SnapshotTrains :
                   ListedDue(notifier, tr, status') =>
                      /\ tr.id \in lapsed => tr.id \in IdsOf(shown')
                      /\ tr.id \in missed \ lapsed => tr.id \notin IdsOf(shown')
           ELSE /\ notifier' = notifier
                /\ shown' = <<>>
         ]_vars

C21_Witness ==
    /\ GateOpen(notifier, now)
    /\ \E tr \in SnapshotTrains :
          /\ tr.id \in missed \ lapsed
          /\ ListedDue(notifier, tr, status)
          /\ tr.id \notin IdsOf(shown)

\* C22 as stated: at most one status update is in flight at a time, and the
\* snapshots are issued to the broker in the order their polls were started.
C22_BroadcastInStartOrder ==
    /\ Cardinality(in_flight) <= 1
    /\ \A i, j \in 1..Len(issued) : i < j => issued[i] < issued[j]

\* C22 amended: every run_status_update call spawns the future of a new poll
\* next to the futures still in flight and issues nothing; a snapshot is
\* issued in the step in which the future of its poll resolves to Ok, after
\* the snapshots of the polls that resolved before, whenever those polls were
\* started; a poll issues at most one snapshot.
C22_BroadcastInResolveOrder ==
    /\ [](\A i, j \in 1..Len(issued) : i # j => issued[i] # issued[j])
    /\ [][ IF polls' # polls
           THEN /\ polls' = polls + 1
                /\ in_flight' = in_flight \cup {polls'}
                /\ issued' = issued
           ELSE \E p \in in_flight :
                   /\ in_flight' = in_flight \ {p}
                   /\ outcome[p] = "" /\ outcome'[p] # ""
                   /\ issued' = IF outcome'[p] = "Ok" THEN Append(issued, p)
                                                      ELSE issued
         ]_vars

C22_Witness ==
    /\ Len(issued) = 2
    /\ issued[1] > issued[2]
    /\ in_flight # {}

=============================================================================
